---- MODULE Spec2Model ----
(***************************************************************************)
(* ConfigurableProxyRedisStorage (src/lib/index.js) and the cluster URL    *)
(* parser (src/lib/cluster.js).                                            *)
(*                                                                         *)
(* Strings that the code takes apart (paths, connection strings) are       *)
(* sequences of one-character strings, so that split/join/includes are     *)
(* computed as the code computes them.  The Redis hash stored under        *)
(* REDIS_KEY_PREFIX is the variable table; every Redis command is atomic   *)
(* and the callers' promise chains interleave between commands.            *)
(***************************************************************************)
EXTENDS Integers, Sequences, FiniteSets, TLC

VARIABLES table, st, calls, url, urlParts, parsed,
          options, env, redis, thrown, exported

\* what the constructor reads and leaves, and what the module's own parseURL returned
construction == <<options, env, redis, thrown, exported>>

vars == <<table, st, calls, url, urlParts, parsed, options, env, redis, thrown, exported>>

(***************************************************************************)
(* Bounds.                                                                 *)
(***************************************************************************)
MaxCallLen == 2      \* longest raw path handed to a store operation in Spec
MaxCalls == 2        \* calls started in one behaviour
MaxPathLen == 6      \* longest raw path resolved in SpecResolve
MaxEntries == 2      \* entries of the initial table in SpecResolve
MaxNodes == 3        \* comma-separated segments of a cluster URL

Procs == {1, 2}

(***************************************************************************)
(* JavaScript values, tagged by kind.                                      *)
(***************************************************************************)
Undefined == [k |-> "undefined", v |-> 0]
Null == [k |-> "null", v |-> 0]
Str(s) == [k |-> "string", v |-> s]
Num(n) == [k |-> "number", v |-> n]
DateV(ms) == [k |-> "date", v |-> ms]
Obj(f) == [k |-> "object", v |-> f]
Err(name) == [k |-> "error", v |-> name]

EmptyString == Str("")

Truthy(x) == x \notin {Undefined, Null, EmptyString}

Fields == {"target", "last_activity"}
Targets == {"t1", "t2"}
Times == {1}

\* Date.prototype.toISOString / Date.parse on the timestamps of the model
Iso(ms) == IF ms = 1 THEN "1970-01-01T00:00:00.001Z" ELSE "1970-01-01T00:00:00.002Z"

DateParse(s) == IF \E ms \in Times : Iso(ms) = s
                THEN CHOOSE ms \in Times : Iso(ms) = s
                ELSE -1

FieldValues(f) == IF f = "last_activity" THEN {DateV(ms) : ms \in Times}
                  ELSE {Str(t) : t \in Targets}

\* the route records callers pass: any subset of the fields
Records == UNION {{Obj(g) : g \in {h \in [D -> UNION {FieldValues(f) : f \in Fields}] :
                                     \A f \in D : h[f] \in FieldValues(f)}} :
                  D \in SUBSET Fields}

(***************************************************************************)
(* Serialisation: _scrub / _expand / _expandLastActivity.                  *)
(***************************************************************************)
\* JSON.stringify of a record: a Date is written as its ISO string
JsonText(f) == [k |-> "json", v |-> [x \in DOMAIN f |->
                   IF f[x].k = "date" THEN Str(Iso(f[x].v)) ELSE f[x]]]

_scrub(item) == IF Truthy(item) THEN JsonText(item.v) ELSE Undefined

\* JSON.parse of a stored text
JsonParse(text) == Obj(text.v)

_expandLastActivity(item) ==
    IF "last_activity" \notin DOMAIN item.v \/ ~Truthy(item.v["last_activity"])
    THEN item
    ELSE Obj([x \in DOMAIN item.v |->
                 IF x = "last_activity" THEN DateV(DateParse(item.v[x].v)) ELSE item.v[x]])

_expand(item) == IF Truthy(item) THEN _expandLastActivity(JsonParse(item)) ELSE Undefined

\* faulty variant: the merge starts from a fresh object, so a missing record is an empty one
ObjectAssign_fresh(item, data) ==
    LET base == IF item \in {Undefined, Null} THEN <<>> ELSE item.v
    IN Obj([x \in DOMAIN base \cup DOMAIN data.v |->
               IF x \in DOMAIN data.v THEN data.v[x] ELSE base[x]])

\* faulty variant: the stored record wins over the partial
ObjectAssign_itemWins(item, data) ==
    IF item \in {Undefined, Null} THEN Err("TypeError")
    ELSE Obj([x \in DOMAIN item.v \cup DOMAIN data.v |->
                 IF x \in DOMAIN item.v THEN item.v[x] ELSE data.v[x]])

\* Object.assign(item, data): own fields of data laid over item; an undefined
\* or null target throws a TypeError
ObjectAssign(item, data) ==
    IF item \in {Undefined, Null} THEN Err("TypeError")
    ELSE Obj([x \in DOMAIN item.v \cup DOMAIN data.v |->
                 IF x \in DOMAIN data.v THEN data.v[x] ELSE item.v[x]])

(***************************************************************************)
(* Paths: cleanPath and _getKeyPaths.                                      *)
(***************************************************************************)
pathSep == "/"
Chars == {pathSep, "a"}

RECURSIVE CollapseSlashes(_)
CollapseSlashes(s) ==
    IF Len(s) < 2 THEN s
    ELSE IF s[1] = pathSep /\ s[2] = pathSep THEN CollapseSlashes(Tail(s))
    ELSE <<s[1]>> \o CollapseSlashes(Tail(s))

\* normalize-url on a path: duplicate slashes collapsed, one trailing slash removed
normalizeUrl(path) ==
    LET c == CollapseSlashes(path)
    IN IF Len(c) > 0 /\ c[Len(c)] = pathSep THEN SubSeq(c, 1, Len(c) - 1) ELSE c

cleanPath(path) == IF path # <<>> /\ path # <<pathSep>> THEN normalizeUrl(path) ELSE <<pathSep>>

\* String.prototype.split(sep): the pieces between the separators
RECURSIVE Split(_, _)
Split(s, sep) ==
    IF \A i \in 1..Len(s) : s[i] # sep THEN <<s>>
    ELSE LET i == CHOOSE j \in 1..Len(s) : s[j] = sep /\ \A m \in 1..(j - 1) : s[m] # sep
         IN <<SubSeq(s, 1, i - 1)>> \o Split(SubSeq(s, i + 1, Len(s)), sep)

\* Array.prototype.join(sep)
RECURSIVE Join(_, _)
Join(arr, sep) ==
    IF Len(arr) = 0 THEN <<>>
    ELSE IF Len(arr) = 1 THEN arr[1]
    ELSE arr[1] \o <<sep>> \o Join(Tail(arr), sep)

Reverse(arr) == [i \in 1..Len(arr) |-> arr[Len(arr) + 1 - i]]

\* faulty variant: the ancestors left in root-first order
_getKeyPaths_unreversed(path) ==
    LET arr == Split(cleanPath(path), pathSep)
    IN [index \in 1..Len(arr) |->
           Join(SubSeq(arr, 1, index - 1), pathSep) \o <<"/">> \o arr[index]]

_getKeyPaths(path) ==
    LET arr == Split(cleanPath(path), pathSep)
    IN Reverse([index \in 1..Len(arr) |->
                   Join(SubSeq(arr, 1, index - 1), pathSep) \o <<"/">> \o arr[index]])

\* raw paths a caller passes: empty, or beginning with one separator
RawPaths(n) == UNION {{p \in [1..m -> Chars] :
                          /\ m > 0 => p[1] = pathSep
                          /\ m > 1 => p[2] # pathSep} : m \in 0..n}

(***************************************************************************)
(* The Redis hash: a function from the registered keys to stored strings.  *)
(***************************************************************************)
\* ioredis writes an undefined argument as the empty string
toArg(x) == IF x = Undefined THEN EmptyString ELSE x

hget(t, key) == IF key \in DOMAIN t THEN t[key] ELSE Null

\* faulty variant: HSETNX, the write is dropped when the key exists
hset_ifAbsent(t, key, val) ==
    [x \in DOMAIN t \cup {key} |-> IF x = key /\ key \notin DOMAIN t THEN toArg(val) ELSE t[x]]

\* faulty variant: the fields of the new text are laid over the fields of the stored one
hset_merge(t, key, val) ==
    [x \in DOMAIN t \cup {key} |->
        IF x # key THEN t[x]
        ELSE IF key \in DOMAIN t /\ t[key].k = "json" /\ toArg(val).k = "json"
        THEN [k |-> "json", v |-> [f \in DOMAIN t[key].v \cup DOMAIN val.v |->
                                      IF f \in DOMAIN val.v THEN val.v[f] ELSE t[key].v[f]]]
        ELSE toArg(val)]

hset(t, key, val) == [x \in DOMAIN t \cup {key} |-> IF x = key THEN toArg(val) ELSE t[x]]

hsetReply(t, key) == IF key \in DOMAIN t THEN Num(0) ELSE Num(1)

\* faulty variant: the key goes together with every key it is a prefix of
hdel_prefix(t, key) ==
    [x \in {y \in DOMAIN t : ~(Len(key) <= Len(y) /\ SubSeq(y, 1, Len(key)) = key)} |-> t[x]]

\* faulty variant: DEL of the whole hash
hdel_whole(t, key) == <<>>

hdel(t, key) == [x \in DOMAIN t \ {key} |-> t[x]]

hdelReply(t, key) == IF key \in DOMAIN t THEN Num(1) ELSE Num(0)

hgetall(t) == t

hkeys(t) == DOMAIN t

\* MULTI ... EXEC of the queued hdel commands, run as one step by the server
exec(t, queued) == [x \in DOMAIN t \ queued |-> t[x]]

execReply(t, queued) == [k |-> "replies", v |-> [x \in queued |-> hdelReply(t, x)]]

(***************************************************************************)
(* One call in flight per caller: the operation, the backend command it    *)
(* waits for, and what its closures hold.  sent lists the commands the     *)
(* call has issued on this.redis, in order; failedAt is the position in    *)
(* sent of the command the backend rejected, 0 when none was.              *)
(***************************************************************************)
Idle == [op |-> "none", stage |-> "idle", key |-> <<>>, data |-> Undefined,
         item |-> Undefined, arg |-> Undefined, paths |-> <<>>, keepRoot |-> FALSE,
         multi |-> {}, res |-> Undefined, sent |-> <<>>, failedAt |-> 0]

CanCall(p) == st[p].stage \in {"idle", "done"} /\ calls < MaxCalls

\* caller p's promise chain begins in state s
Start(p, s) == st' = [st EXCEPT ![p] = s] /\ calls' = calls + 1

Settle(p, value) == st' = [st EXCEPT ![p].stage = "done", ![p].res = value]

get(p, path) ==
    /\ CanCall(p)
    /\ Start(p, [Idle EXCEPT !.op = "get", !.stage = "hget", !.sent = <<"hget">>, !.key = cleanPath(path)])
    /\ UNCHANGED <<table, url, urlParts, parsed, construction>>

add(p, path, data) ==
    /\ CanCall(p)
    /\ Start(p, [Idle EXCEPT !.op = "add", !.stage = "hset", !.sent = <<"hset">>, !.key = cleanPath(path),
                          !.data = data, !.arg = _scrub(data)])
    /\ UNCHANGED <<table, url, urlParts, parsed, construction>>

remove(p, path) ==
    /\ CanCall(p)
    /\ Start(p, [Idle EXCEPT !.op = "remove", !.stage = "hdel", !.sent = <<"hdel">>, !.key = cleanPath(path)])
    /\ UNCHANGED <<table, url, urlParts, parsed, construction>>

\* update(path, data) calls this.get(key), which cleans the key once more
update(p, path, data) ==
    /\ CanCall(p)
    /\ Start(p, [Idle EXCEPT !.op = "update", !.stage = "hget", !.sent = <<"hget">>,
                          !.key = cleanPath(cleanPath(path)), !.data = data])
    /\ UNCHANGED <<table, url, urlParts, parsed, construction>>

getAll(p) ==
    /\ CanCall(p)
    /\ Start(p, [Idle EXCEPT !.op = "getAll", !.stage = "hgetall", !.sent = <<"hgetall">>])
    /\ UNCHANGED <<table, url, urlParts, parsed, construction>>

getTarget(p, path) ==
    /\ CanCall(p)
    /\ Start(p, [Idle EXCEPT !.op = "getTarget", !.stage = "hgetall", !.sent = <<"hgetall">>, !.key = cleanPath(path),
                          !.paths = _getKeyPaths(cleanPath(path))])
    /\ UNCHANGED <<table, url, urlParts, parsed, construction>>

clear(p, keepRoot) ==
    /\ CanCall(p)
    /\ Start(p, [Idle EXCEPT !.op = "clear", !.stage = "hkeys", !.sent = <<"hkeys">>, !.keepRoot = keepRoot])
    /\ UNCHANGED <<table, url, urlParts, parsed, construction>>

\* the routes object getAll resolves with: every returned key, its value expanded
ExpandAll(routes) == [k |-> "routes", v |-> [key \in DOMAIN routes |-> _expand(routes[key])]]

\* the callback of getTarget on the routes loaded by getAll
TargetOf(paths, registeredRoutes) ==
    LET Valid(route) == route \in DOMAIN registeredRoutes.v /\ Truthy(registeredRoutes.v[route])
        validRoutes == SelectSeq(paths, Valid)
    IN IF Len(validRoutes) = 0 THEN Undefined
       ELSE [k |-> "match", v |-> [prefix |-> validRoutes[1],
                                   data |-> registeredRoutes.v[validRoutes[1]]]]

\* faulty variant: root is queued like any other key
ClearFilter_all(keys, keepRoot) == {key \in keys : keepRoot}

\* the keys clear queues for deletion
ClearFilter(keys, keepRoot) == {key \in keys : keepRoot /\ key # <<pathSep>>}

\* what get resolves with when HGET replies from hash t
getResult(t, key) == _expand(hget(t, key))

\* reply of HGET: get resolves; update merges and issues the write through add,
\* or rejects when the merge throws
HgetReply(p) ==
    /\ st[p].stage = "hget"
    /\ LET item == getResult(table, st[p].key)
           merged == ObjectAssign(item, st[p].data)
       IN IF st[p].op = "get" THEN Settle(p, item)
          ELSE IF merged.k = "error" THEN Settle(p, merged)
          ELSE st' = [st EXCEPT ![p].stage = "hset", ![p].item = item,
                                ![p].key = cleanPath(st[p].key),
                                ![p].arg = _scrub(merged),
                                ![p].sent = Append(st[p].sent, "hset")]
    /\ UNCHANGED <<table, calls, url, urlParts, parsed, construction>>

\* faulty variant: the write of an update merges into what the key holds when it lands
HsetReply_atomic(p) ==
    /\ st[p].stage = "hset"
    /\ LET now == getResult(table, st[p].key)
           val == IF st[p].op = "update" /\ now # Undefined
                  THEN _scrub(ObjectAssign(now, st[p].data)) ELSE st[p].arg
       IN table' = hset(table, st[p].key, val)
    /\ Settle(p, hsetReply(table, st[p].key))
    /\ UNCHANGED <<calls, url, urlParts, parsed, construction>>

\* faulty variant: the write is dropped when the key is no longer there
HsetReply_ifExists(p) ==
    /\ st[p].stage = "hset"
    /\ table' = IF st[p].op = "update" /\ st[p].key \notin DOMAIN table THEN table
                ELSE hset(table, st[p].key, st[p].arg)
    /\ Settle(p, hsetReply(table, st[p].key))
    /\ UNCHANGED <<calls, url, urlParts, parsed, construction>>

HsetReply(p) ==
    /\ st[p].stage = "hset"
    /\ table' = hset(table, st[p].key, st[p].arg)
    /\ Settle(p, hsetReply(table, st[p].key))
    /\ UNCHANGED <<calls, url, urlParts, parsed, construction>>

HdelReply(p) ==
    /\ st[p].stage = "hdel"
    /\ table' = hdel(table, st[p].key)
    /\ Settle(p, hdelReply(table, st[p].key))
    /\ UNCHANGED <<calls, url, urlParts, parsed, construction>>

HgetallReply(p) ==
    /\ st[p].stage = "hgetall"
    /\ LET routes == ExpandAll(hgetall(table))
       IN IF st[p].op = "getAll" THEN Settle(p, routes)
          ELSE Settle(p, TargetOf(st[p].paths, routes))
    /\ UNCHANGED <<table, calls, url, urlParts, parsed, construction>>

\* faulty variant: every listed key is deleted by a command of its own as soon
\* as the listing arrives
HkeysReply_eager(p) ==
    /\ st[p].stage = "hkeys"
    /\ LET queued == ClearFilter(hkeys(table), st[p].keepRoot)
       IN /\ table' = exec(table, queued)
          /\ st' = [st EXCEPT ![p].stage = "done", ![p].multi = queued,
                              ![p].res = execReply(table, queued),
                              ![p].sent = st[p].sent \o [i \in 1..Cardinality(queued) |-> "hdel"]]
    /\ UNCHANGED <<calls, url, urlParts, parsed, construction>>

HkeysReply(p) ==
    /\ st[p].stage = "hkeys"
    /\ st' = [st EXCEPT ![p].stage = "exec",
                        ![p].multi = ClearFilter(hkeys(table), st[p].keepRoot),
                        ![p].sent = Append(st[p].sent, "exec")]
    /\ UNCHANGED <<table, calls, url, urlParts, parsed, construction>>

ExecReply(p) ==
    /\ st[p].stage = "exec"
    /\ table' = exec(table, st[p].multi)
    /\ Settle(p, execReply(table, st[p].multi))
    /\ UNCHANGED <<calls, url, urlParts, parsed, construction>>

\* faulty variant: a failed read is taken for an empty reply and the chain goes on
BackendFails_swallow(p) ==
    /\ st[p].stage \in {"hget", "hset", "hdel", "hgetall", "hkeys", "exec"}
    /\ st' = IF st[p].op = "update" /\ st[p].stage = "hget"
             THEN [st EXCEPT ![p].stage = "hset", ![p].arg = _scrub(st[p].data),
                             ![p].failedAt = Len(st[p].sent),
                             ![p].sent = Append(st[p].sent, "hset")]
             ELSE IF st[p].stage = "hkeys"
             THEN [st EXCEPT ![p].stage = "exec", ![p].failedAt = Len(st[p].sent),
                             ![p].sent = Append(st[p].sent, "exec")]
             ELSE [st EXCEPT ![p].stage = "done", ![p].res = Err("BackendError"),
                             ![p].failedAt = Len(st[p].sent)]
    /\ UNCHANGED <<table, calls, url, urlParts, parsed, construction>>

\* a backend command fails: the promise chain rejects with the backend's error
BackendFails(p) ==
    /\ st[p].stage \in {"hget", "hset", "hdel", "hgetall", "hkeys", "exec"}
    /\ st' = [st EXCEPT ![p].stage = "done", ![p].res = Err("BackendError"),
                        ![p].failedAt = Len(st[p].sent)]
    /\ UNCHANGED <<table, calls, url, urlParts, parsed, construction>>

NoUrl == <<>>
NotParsed == [k |-> "none", v |-> 0]
NoClient == [k |-> "none", v |-> 0]

\* no option, no environment variable, no client yet, nothing thrown
Unconstructed ==
    /\ options = Undefined
    /\ env = Undefined
    /\ redis = NoClient
    /\ thrown = Null
    /\ exported = NotParsed

\* the hash as two earlier adds leave it: a record under root, another under /a
SeedTable ==
    hset(hset(<<>>, cleanPath(<<pathSep>>),
              _scrub(Obj([x \in Fields |-> IF x = "target" THEN Str("t1") ELSE DateV(1)]))),
         cleanPath(<<pathSep, "a">>), _scrub(Obj([x \in {"target"} |-> Str("t2")])))

\* the store starts on an empty hash or on one earlier calls have filled
Init ==
    /\ table \in {<<>>, SeedTable}
    /\ st = [p \in Procs |-> Idle]
    /\ calls = 0
    /\ url = NoUrl
    /\ urlParts = <<>>
    /\ parsed = NotParsed
    /\ Unconstructed

CallPaths == RawPaths(MaxCallLen)

Next ==
    \/ \E p \in Procs, path \in CallPaths : get(p, path)
    \/ \E p \in Procs, path \in CallPaths, data \in Records \cup {Undefined} : add(p, path, data)
    \/ \E p \in Procs, path \in CallPaths : remove(p, path)
    \/ \E p \in Procs, path \in CallPaths, data \in Records : update(p, path, data)
    \/ \E p \in Procs : getAll(p)
    \/ \E p \in Procs, path \in CallPaths : getTarget(p, path)
    \/ \E p \in Procs, keepRoot \in BOOLEAN : clear(p, keepRoot)
    \/ \E p \in Procs : HgetReply(p)
    \/ \E p \in Procs : HsetReply(p)
    \/ \E p \in Procs : HdelReply(p)
    \/ \E p \in Procs : HgetallReply(p)
    \/ \E p \in Procs : HkeysReply(p)
    \/ \E p \in Procs : ExecReply(p)
    \/ \E p \in Procs : BackendFails(p)

Spec == Init /\ [][Next]_vars

(***************************************************************************)
(* SpecResolve: getTarget on every small table, for every raw path up to   *)
(* MaxPathLen.  A table holds what add can have written: the empty string  *)
(* (add of undefined) or the text of a record.                             *)
(***************************************************************************)
RECURSIVE SubsetsUpTo(_, _)
SubsetsUpTo(S, n) ==
    IF n = 0 THEN {{}}
    ELSE LET smaller == SubsetsUpTo(S, n - 1)
         IN smaller \cup {D \cup {x} : D \in smaller, x \in S}

ResolvePaths == RawPaths(MaxPathLen)

ResolveKeys == {cleanPath(path) : path \in ResolvePaths}

StoredSample == {toArg(_scrub(Undefined)),
                 toArg(_scrub(Obj([x \in {"target"} |-> Str("t1")]))),
                 toArg(_scrub(Obj([x \in {"target"} |-> Str("t2")])))}

ResolveTables == UNION {[D -> StoredSample] : D \in SubsetsUpTo(ResolveKeys, MaxEntries)}

InitResolve ==
    /\ table \in ResolveTables
    /\ st = [p \in Procs |-> Idle]
    /\ calls = 0
    /\ url = NoUrl
    /\ urlParts = <<>>
    /\ parsed = NotParsed
    /\ Unconstructed

\* one resolution per table
NextResolve ==
    \/ \E path \in ResolvePaths : st[1].stage = "idle" /\ getTarget(1, path)
    \/ HgetallReply(1)

SpecResolve == InitResolve /\ [][NextResolve]_vars

(***************************************************************************)
(* cluster.js: isCluster and parseURL.  A connection string is a sequence  *)
(* whose elements are single characters, except that the scheme marker is  *)
(* one element (no other element contains any of its characters).          *)
(***************************************************************************)
ClusterScheme == "cluster://"

\* String.prototype.includes
Includes(s, c) == \E i \in 1..Len(s) : s[i] = c

isCluster(u) == Includes(u, ClusterScheme)

StartsWith(s, c) == Len(s) > 0 /\ s[1] = c

Text(s) == [k |-> "chars", v |-> s]
NaN == [k |-> "NaN", v |-> 0]

Digits == <<"0", "1", "2", "3", "4", "5", "6", "7", "8", "9">>

IsDigit(c) == \E d \in 1..Len(Digits) : Digits[d] = c

DigitOf(c) == (CHOOSE d \in 1..Len(Digits) : Digits[d] = c) - 1

RECURSIVE DecimalValue(_)
DecimalValue(s) ==
    IF Len(s) = 0 THEN 0
    ELSE DecimalValue(SubSeq(s, 1, Len(s) - 1)) * Len(Digits) + DigitOf(s[Len(s)])

\* Number(port) on a string: the empty string is 0, a digit string its decimal
\* value, anything else NaN
Number(s) == IF \A i \in 1..Len(s) : IsDigit(s[i]) THEN Num(DecimalValue(s)) ELSE NaN

\* faulty variant: the port is left as the text after the colon
parseHost_portText(h) ==
    IF Includes(h, ":")
    THEN LET parts == Split(h, ":")
         IN [host |-> parts[1], port |-> Text(parts[2])]
    ELSE [host |-> h]

\* the body of parseURL's forEach for a non-empty segment h
parseHost(h) ==
    IF Includes(h, ":")
    THEN LET parts == Split(h, ":")
         IN [host |-> parts[1], port |-> Number(parts[2])]
    ELSE [host |-> h]

RECURSIVE parseHosts(_)
parseHosts(segments) ==
    IF Len(segments) = 0 THEN <<>>
    ELSE IF Head(segments) = <<>> THEN parseHosts(Tail(segments))
    ELSE <<parseHost(Head(segments))>> \o parseHosts(Tail(segments))

parseURL(u) ==
    LET url1 == Split(u, ClusterScheme)[2]
        hasAt == Includes(url1, "@")
        p == Split(url1, "@")[1]
        password == IF ~hasAt THEN Null
                    ELSE IF StartsWith(p, ":") THEN Text(Tail(p)) ELSE Text(p)
        hh == IF hasAt THEN Split(url1, "@")[2] ELSE url1
    IN [k |-> "cluster", v |-> [hosts |-> parseHosts(Split(hh, ",")), password |-> password]]

\* ./sentinel is outside this source tree: the marker is matched at the start
\* of the string and the descriptor is kept as the string it was parsed from
SentinelScheme == "sentinel://"

isSentinel(u) == StartsWith(u, SentinelScheme)

sentinelParseURL(u) == [k |-> "sentinel", v |-> u]

\* _getRedisConfiguration: the cluster descriptor, the sentinel descriptor, or
\* the URI itself
_getRedisConfiguration(u) ==
    IF isCluster(u) THEN parseURL(u)
    ELSE IF isSentinel(u) THEN sentinelParseURL(u)
    ELSE [k |-> "uri", v |-> u]

(***************************************************************************)
(* SpecCluster: connection strings assembled from up to MaxNodes segments, *)
(* each an optional credential, a host and an optional port.  urlParts     *)
(* keeps the segments the string in url was written from.                  *)
(***************************************************************************)
None == <<"none">>

CredSample == {None, <<"s">>, <<":", "s">>}
HostSample == {<<>>, <<"h">>, <<"g">>}
PortSample == {None, <<"7">>, <<"1", "0">>}

Segments == [cred : CredSample, host : HostSample, port : PortSample]

RenderSegment(seg) ==
    (IF seg.cred = None THEN <<>> ELSE seg.cred \o <<"@">>)
    \o seg.host
    \o (IF seg.port = None THEN <<>> ELSE <<":">> \o seg.port)

RenderUrl(segs) == <<ClusterScheme>> \o Join([i \in 1..Len(segs) |-> RenderSegment(segs[i])], ",")

SegmentLists == UNION {[1..n -> Segments] : n \in 1..MaxNodes}

StandaloneUrl == <<"redis://", "h", ":", "7">>

InitCluster ==
    /\ table = <<>>
    /\ st = [p \in Procs |-> Idle]
    /\ calls = 0
    /\ \/ urlParts \in SegmentLists /\ url = RenderUrl(urlParts)
       \/ urlParts = <<>> /\ url = StandaloneUrl
    /\ parsed = NotParsed
    /\ Unconstructed

Configure ==
    /\ parsed = NotParsed
    /\ parsed' = _getRedisConfiguration(url)
    /\ UNCHANGED <<table, st, calls, url, urlParts, construction>>

\* the parseURL that src/lib/index.js defines after the class and exports: every
\* segment is split at '@' into the node's password and its target; a segment
\* without '@' leaves target null and target.includes throws
exportedParseHost(h) ==
    LET s == Split(h, "@")
        node == parseHost(s[2])
    IN [x \in DOMAIN node \cup {"password"} |->
          IF x = "password" THEN Text(s[1]) ELSE node[x]]

exportedParseURL(u) ==
    LET pieces == Split(u, ClusterScheme)
    IN IF Len(pieces) < 2 THEN Err("TypeError")
       ELSE LET segs == Split(pieces[2], ",")
            IN IF \E i \in 1..Len(segs) : ~Includes(segs[i], "@") THEN Err("TypeError")
               ELSE [k |-> "nodes", v |-> [i \in 1..Len(segs) |-> exportedParseHost(segs[i])]]

ExportedParse ==
    /\ exported = NotParsed
    /\ exported' = exportedParseURL(url)
    /\ UNCHANGED <<table, st, calls, url, urlParts, parsed, options, env, redis, thrown>>

NextCluster == Configure \/ ExportedParse

SpecCluster == InitCluster /\ [][NextCluster]_vars

(***************************************************************************)
(* SpecConstruct: the constructor, given options.redisURI and the          *)
(* environment variable CONFIGURABLE_PROXY_REDIS_URI, each absent, empty   *)
(* or one of the sampled connection strings.                               *)
(***************************************************************************)
UrlSample ==
    { StandaloneUrl,
      <<"redis://", "g">>,
      <<ClusterScheme, "h", ":", "7">>,
      <<ClusterScheme, "s", "@", "h", ",", "g">>,
      <<ClusterScheme, "s", "@">>,
      <<SentinelScheme, "h", ":", "7">>,
      <<"redis://", "h", "/", "?", "x", "=", ClusterScheme, "g">> }

UriValues == {Undefined, Text(<<>>)} \cup {Text(u) : u \in UrlSample}

\* a JavaScript string or undefined taken as a condition
Falsy(x) == x = Undefined \/ x = Text(<<>>)

_mustBeDefined == Err("Error")

\* faulty variant: the environment variable is looked at first
_getRedisUri_envFirst ==
    IF ~Falsy(env) THEN env
    ELSE IF ~Falsy(options) THEN options
    ELSE _mustBeDefined

\* options.redisURI || process.env.CONFIGURABLE_PROXY_REDIS_URI || throw
_getRedisUri ==
    IF ~Falsy(options) THEN options
    ELSE IF ~Falsy(env) THEN env
    ELSE _mustBeDefined

ClusterClient(hosts, password) ==
    [k |-> "Cluster", v |-> [hosts |-> hosts, redisOptions |-> [password |-> password]]]

PlainClient(conf) == [k |-> "Redis", v |-> conf]

constructor ==
    /\ redis = NoClient /\ thrown = Null
    /\ LET uri == _getRedisUri
       IN IF uri.k = "error"
          THEN /\ thrown' = uri
               /\ UNCHANGED <<url, redis>>
          ELSE /\ url' = uri.v
               /\ redis' = IF isCluster(uri.v)
                           THEN LET conf == _getRedisConfiguration(uri.v)
                                IN ClusterClient(conf.v.hosts, conf.v.password)
                           ELSE PlainClient(_getRedisConfiguration(uri.v))
               /\ UNCHANGED thrown
    /\ UNCHANGED <<table, st, calls, urlParts, parsed, options, env, exported>>

InitConstruct ==
    /\ table = <<>>
    /\ st = [p \in Procs |-> Idle]
    /\ calls = 0
    /\ url = NoUrl
    /\ urlParts = <<>>
    /\ parsed = NotParsed
    /\ options \in UriValues
    /\ env \in UriValues
    /\ redis = NoClient
    /\ thrown = Null
    /\ exported = NotParsed

NextConstruct == constructor

SpecConstruct == InitConstruct /\ [][NextConstruct]_vars


(***************************************************************************)
(* Properties.                                                             *)
(***************************************************************************)
Root == <<pathSep>>

\* key k is q itself or names a chain of leading segments of q
IsAncestor(k, q) ==
    \/ k = Root
    \/ /\ Len(k) <= Len(q)
       /\ SubSeq(q, 1, Len(k)) = k
       /\ Len(k) = Len(q) \/ q[Len(k) + 1] = pathSep

Done(p, op) == st[p].op = op /\ st[p].stage = "done"

Succeeded(p, op) == Done(p, op) /\ st[p].res.k # "error"

\* caller p's pending backend command is answered in this step, without error
Replied(p, op, stage) ==
    /\ st[p].op = op /\ st[p].stage = stage
    /\ st'[p].stage = "done" /\ st'[p].res.k # "error"

\* no other caller has issued any call
Alone(p) == \A q \in Procs \ {p} : st[q].stage = "idle"

\* C1: getTarget resolves with the longest ancestor of the cleaned path that is
\* in the table with a non-empty value, and that key's decoded route; it
\* resolves with undefined exactly when no ancestor, root included, is there
\* with a non-empty value.
C1_ResolveMostSpecific ==
    [][\A p \in Procs :
          Replied(p, "getTarget", "hgetall") =>
             LET cands == {k \in DOMAIN table :
                              IsAncestor(k, st[p].key) /\ table[k] # EmptyString}
                 res == st'[p].res
             IN IF cands = {} THEN res = Undefined
                ELSE /\ res.k = "match"
                     /\ res.v.prefix \in cands
                     /\ \A k \in cands : Len(k) <= Len(res.v.prefix)
                     /\ res.v.data = getResult(table, res.v.prefix)]_vars

\* a proper, non-root ancestor was returned although root is registered too
C1_Witness ==
    \E p \in Procs :
       /\ Succeeded(p, "getTarget") /\ st[p].res.k = "match"
       /\ st[p].res.v.prefix # st[p].key
       /\ Len(st[p].res.v.prefix) > 1
       /\ Root \in DOMAIN table /\ table[Root] # EmptyString

\* C2: when add(path, r) has written, get of that key resolves with r whatever
\* the key held before (undefined when r is undefined): the whole record is
\* replaced.
C2_AddThenGet ==
    [][\A p \in Procs :
          Replied(p, "add", "hset") => getResult(table', st[p].key) = st[p].data]_vars

\* a get resolved with the record, timestamp included, that the other caller's
\* add wrote under the same key
C2_Witness ==
    \E p, q \in Procs :
       /\ Succeeded(p, "add") /\ Succeeded(q, "get")
       /\ st[p].key = st[q].key
       /\ st[p].data \in Records /\ "last_activity" \in DOMAIN st[p].data.v
       /\ st[p].res = Num(0)
       /\ st[q].res = st[p].data

\* C3: when remove(path) has deleted, get of that key resolves with undefined;
\* removing a key that is not there succeeds and leaves the hash as it was, and
\* a second removal changes nothing.
C3_RemoveThenGet ==
    [][\A p \in Procs :
          Replied(p, "remove", "hdel") =>
             /\ getResult(table', st[p].key) = Undefined
             /\ st[p].key \notin DOMAIN table => table' = table /\ st'[p].res = Num(0)
             /\ hdel(table', st[p].key) = table'
             /\ \A x \in DOMAIN table \ {st[p].key} : x \in DOMAIN table' /\ table'[x] = table[x]]_vars

\* a remove of an absent key completed while other keys were registered
C3_Witness ==
    \E p \in Procs :
       /\ Succeeded(p, "remove") /\ st[p].res = Num(0)
       /\ DOMAIN table # {} /\ st[p].key \notin DOMAIN table

\* C4: clear(false), run alone, leaves the hash empty.
C4_ClearAllEmpties ==
    [][\A p \in Procs :
          (Replied(p, "clear", "exec") /\ ~st[p].keepRoot /\ Alone(p)) => table' = <<>>]_vars

\* C5: clear(true), run alone on a hash where root is registered, leaves exactly
\* the root entry, with the value it had.
C5_ClearKeepsRoot ==
    [][\A p \in Procs :
          (Replied(p, "clear", "exec") /\ st[p].keepRoot /\ Alone(p) /\ Root \in DOMAIN table) =>
             table' = [x \in {Root} |-> table[Root]]]_vars

\* clear(true) has deleted a key and root is still registered
C5_Witness ==
    \E p \in Procs :
       /\ Succeeded(p, "clear") /\ st[p].keepRoot /\ Alone(p)
       /\ st[p].multi # {}
       /\ DOMAIN table = {Root}

\* C6: update of a key that get resolves undefined for rejects when the read
\* replies: the call is over, no write was issued and the hash is as it was.
C6_UpdateMissingFails ==
    [][\A p \in Procs :
          (st[p].op = "update" /\ st[p].stage = "hget" /\ st'[p] # st[p]
             /\ getResult(table, st[p].key) = Undefined) =>
             /\ st'[p].stage = "done" /\ st'[p].res.k = "error"
             /\ table' = table]_vars

\* an update of an unregistered key was rejected by the merge
C6_Witness ==
    \E p \in Procs :
       /\ Done(p, "update") /\ st[p].res = Err("TypeError")
       /\ st[p].key \notin DOMAIN table

\* C7: update(path, partial), run alone on a key holding r, leaves the key
\* holding every field of partial with partial's value and every other field of
\* r with r's value, and nothing else.
C7_UpdateMerges ==
    [][\A p \in Procs :
          (Replied(p, "update", "hset") /\ Alone(p)) =>
             LET r == getResult(table, st[p].key)
                 partial == st[p].data
                 now == getResult(table', st[p].key)
             IN /\ now.k = "object"
                /\ DOMAIN now.v = DOMAIN r.v \cup DOMAIN partial.v
                /\ \A f \in DOMAIN partial.v : now.v[f] = partial.v[f]
                /\ \A f \in DOMAIN r.v \ DOMAIN partial.v : now.v[f] = r.v[f]]_vars

\* an update replaced one field of the record it read and kept another
C7_Witness ==
    \E p \in Procs :
       /\ Succeeded(p, "update") /\ Alone(p)
       /\ \E f \in DOMAIN st[p].item.v \cap DOMAIN st[p].data.v : st[p].item.v[f] # st[p].data.v[f]
       /\ DOMAIN st[p].item.v \ DOMAIN st[p].data.v # {}
       /\ getResult(table, st[p].key) = ObjectAssign(st[p].item, st[p].data)

\* C8: once two callers' adds on one key have both completed, the key holds the
\* record of one of them, whole.
C8_ConcurrentAdds ==
    \A p, q \in Procs :
       (p # q /\ Succeeded(p, "add") /\ Succeeded(q, "add") /\ st[p].key = st[q].key) =>
          getResult(table, st[p].key) \in {st[p].data, st[q].data}

\* two adds of records with different fields completed on one key
C8_Witness ==
    \E p, q \in Procs :
       /\ p # q /\ Succeeded(p, "add") /\ Succeeded(q, "add") /\ st[p].key = st[q].key
       /\ st[p].data \in Records /\ st[q].data \in Records
       /\ DOMAIN st[p].data.v = {"target"} /\ DOMAIN st[q].data.v = {"last_activity"}
       /\ getResult(table, st[p].key) = st[q].data

\* what a completed add or update wrote: add its record, update the merge of
\* the record it read with its partial
Written(p) == IF st[p].op = "add" THEN st[p].data ELSE ObjectAssign(st[p].item, st[p].data)

\* C9: once an update and another update or add on one key have both
\* completed, the key holds what one of them wrote, computed from what that
\* caller itself read: nothing of the other caller's write is merged in.
C9_LastWriteWins ==
    \A p, q \in Procs :
       (/\ p # q /\ st[p].key = st[q].key
        /\ Succeeded(p, "update")
        /\ Succeeded(q, "update") \/ Succeeded(q, "add")) =>
          getResult(table, st[p].key) \in {Written(p), Written(q)}

\* lost update: both updates read the same record, both wrote, and the field one
\* of them set is not in the record the key holds
C9_Witness ==
    \E p, q \in Procs :
       /\ p # q /\ st[p].key = st[q].key
       /\ Succeeded(p, "update") /\ Succeeded(q, "update")
       /\ st[p].item = st[q].item
       /\ \E f \in DOMAIN st[p].data.v : f \notin DOMAIN getResult(table, st[p].key).v

\* a segment with nothing in it, as a trailing comma leaves
IsEmptySegment(seg) == seg.cred = None /\ seg.host = <<>> /\ seg.port = None

\* cluster://[password@]host1[:port1][,host2[:port2]...]: only the first
\* segment carries a credential, every other segment has a host or is empty
WellFormed(segs) ==
    /\ segs[1].host # <<>>
    /\ \A i \in 2..Len(segs) : segs[i].cred = None
    /\ \A i \in 2..Len(segs) : segs[i].host # <<>> \/ IsEmptySegment(segs[i])

\* the integer each sampled port text denotes
PortValue(port) == IF port = <<"7">> THEN 7 ELSE 10

RECURSIVE NodesOf(_)
NodesOf(segs) ==
    IF Len(segs) = 0 THEN <<>>
    ELSE LET seg == Head(segs)
             node == IF seg.port = None THEN [host |-> seg.host]
                     ELSE [host |-> seg.host, port |-> Num(PortValue(seg.port))]
         IN (IF IsEmptySegment(seg) THEN <<>> ELSE <<node>>) \o NodesOf(Tail(segs))

PasswordOf(segs) ==
    IF segs[1].cred = None THEN Null
    ELSE IF StartsWith(segs[1].cred, ":") THEN Text(Tail(segs[1].cred))
    ELSE Text(segs[1].cred)

\* C10: a cluster URL of the documented form parses to one node per non-empty
\* segment, in order, with its host and its port as an integer when one is
\* written (no port field otherwise), and the one password, null when none.
C10_ClusterDescriptor ==
    (parsed # NotParsed /\ urlParts # <<>> /\ WellFormed(urlParts)) =>
       /\ parsed.k = "cluster"
       /\ parsed.v.hosts = NodesOf(urlParts)
       /\ parsed.v.password = PasswordOf(urlParts)

\* cluster://s@h:10,g:7 was parsed to two nodes with integer ports and password s
C10_Witness ==
    /\ url = <<ClusterScheme, "s", "@", "h", ":", "1", "0", ",", "g", ":", "7", ",">>
    /\ parsed.k = "cluster"
    /\ parsed.v.hosts = <<[host |-> <<"h">>, port |-> Num(10)], [host |-> <<"g">>, port |-> Num(7)]>>
    /\ parsed.v.password = Text(<<"s">>)

\* C14: the object getAll resolves with has no key whose value is undefined:
\* a key stored with an empty value is left out.
C14_GetAllOmitsEmpty ==
    \A p \in Procs :
       Succeeded(p, "getAll") => \A key \in DOMAIN st[p].res.v : st[p].res.v[key] # Undefined

\* C15: a call whose backend command was rejected is over, rejected with the
\* backend's error, and the rejected command is the last one it issued.
C15_FailurePropagates ==
    \A p \in Procs :
       st[p].failedAt # 0 =>
          /\ st[p].stage = "done"
          /\ st[p].res = Err("BackendError")
          /\ st[p].failedAt = Len(st[p].sent)

\* the read of an update of a registered key was rejected and no write followed
C15_Witness ==
    \E p \in Procs :
       /\ Done(p, "update") /\ st[p].failedAt = 1
       /\ st[p].sent = <<"hget">>
       /\ st[p].key \in DOMAIN table /\ Truthy(table[st[p].key])

\* C16: the ancestors of a cleaned path are its prefixes from the full key down
\* to root: the first is the key, the last is root, each is a shorter ancestor
\* of the one before, every ancestor of the key is among them, and for root
\* the sequence is <<root>>.
C16_AncestorChain ==
    \A p \in Procs :
       st[p].op = "getTarget" =>
          LET a == st[p].paths
              key == st[p].key
          IN /\ Len(a) >= 1
             /\ a[1] = key /\ a[Len(a)] = Root
             /\ \A i \in 1..(Len(a) - 1) : Len(a[i + 1]) < Len(a[i]) /\ IsAncestor(a[i + 1], a[i])
             /\ \A n \in 1..Len(key) :
                   IsAncestor(SubSeq(key, 1, n), key) => \E i \in 1..Len(a) : a[i] = SubSeq(key, 1, n)
             /\ key = Root => a = <<Root>>

\* C18: a clear issues hkeys and then exec and nothing else; nothing is deleted
\* before the listing has replied, the batch holds only listed keys, and exec
\* deletes exactly the batch.
C18_ClearOneReadOneBatch ==
    [][\A p \in Procs :
          /\ st'[p].op = "clear" => st'[p].sent \in {<<"hkeys">>, <<"hkeys", "exec">>}
          /\ (st[p].op = "clear" /\ st[p].stage = "hkeys" /\ st'[p] # st[p]) =>
                /\ table' = table
                /\ st'[p].stage = "exec" => st'[p].multi \subseteq DOMAIN table
          /\ Replied(p, "clear", "exec") =>
                /\ st'[p].sent = <<"hkeys", "exec">>
                /\ DOMAIN table' = DOMAIN table \ st[p].multi
                /\ \A x \in DOMAIN table' : table'[x] = table[x]]_vars

\* a clear has deleted a key in its batch
C18_Witness ==
    \E p \in Procs :
       /\ Succeeded(p, "clear") /\ st[p].sent = <<"hkeys", "exec">>
       /\ \E x \in st[p].multi : st[p].res.v[x] = Num(1)

\* C19: a step of add, remove or update leaves every key but its own as it
\* was; a step of get, getAll or getTarget leaves the hash as it was, and these
\* calls issue only reads.
C19_Frame ==
    [][\A p \in Procs :
          st'[p] # st[p] =>
             /\ st[p].op \in {"add", "remove", "update"} =>
                   \A x \in (DOMAIN table \cup DOMAIN table') \ {st[p].key} :
                      x \in DOMAIN table /\ x \in DOMAIN table' /\ table'[x] = table[x]
             /\ st[p].op \in {"get", "getAll", "getTarget"} => table' = table
             /\ st'[p].op \in {"get", "getAll", "getTarget"} =>
                   \A i \in 1..Len(st'[p].sent) : st'[p].sent[i] \in {"hget", "hgetall"}]_vars

\* a remove deleted its key and the other registered key is still there
C19_Witness ==
    \E p \in Procs :
       /\ Succeeded(p, "remove") /\ st[p].res = Num(1)
       /\ \E x \in DOMAIN table : x # st[p].key /\ table[x] = SeedTable[x]

\* C20: when the write of an update lands on a key that has been deleted since
\* the update read it, the key is there again, holding the record the update
\* read merged with its partial.
C20_UpdateUndoesRemoval ==
    [][\A p \in Procs :
          (Replied(p, "update", "hset") /\ st[p].key \notin DOMAIN table) =>
             /\ st[p].key \in DOMAIN table'
             /\ getResult(table', st[p].key) = ObjectAssign(st[p].item, st[p].data)
             /\ st[p].item # Undefined]_vars

\* a remove deleted the key, the update then created it again with the merge
C20_Witness ==
    \E p, q \in Procs :
       /\ Succeeded(p, "update") /\ st[p].res = Num(1)
       /\ Succeeded(q, "remove") /\ st[q].res = Num(1) /\ st[q].key = st[p].key
       /\ getResult(table, st[p].key) = ObjectAssign(st[p].item, st[p].data)

\* a segment that is a credential and nothing else, as in cluster://secret@
IsCredentialOnly(seg) == seg.cred # None /\ seg.host = <<>> /\ seg.port = None

\* C11: a cluster URL with a segment that has a credential and no host is
\* rejected, by the parser the store uses and by the one the module exports.
C11_EmptyTargetRejected ==
    (urlParts # <<>> /\ \E i \in 1..Len(urlParts) : IsCredentialOnly(urlParts[i])) =>
       /\ parsed # NotParsed => parsed.k = "error"
       /\ exported # NotParsed => exported.k = "error"

\* the password of a credential as written, without a leading colon
PasswordText(cred) == IF StartsWith(cred, ":") THEN Text(Tail(cred)) ELSE Text(cred)

RECURSIVE LastPassword(_)
LastPassword(segs) ==
    IF Len(segs) = 0 THEN Null
    ELSE IF segs[Len(segs)].cred # None THEN PasswordText(segs[Len(segs)].cred)
    ELSE LastPassword(SubSeq(segs, 1, Len(segs) - 1))

\* C13: when every segment of a cluster URL names a host, with or without a
\* credential of its own, the descriptor has one node per segment made of the
\* host and port written after the segment's '@', and its password is the last
\* credential written.
C13_PerSegmentCredentials ==
    (/\ parsed # NotParsed /\ urlParts # <<>>
     /\ \A i \in 1..Len(urlParts) : urlParts[i].host # <<>>) =>
       /\ parsed.k = "cluster"
       /\ parsed.v.hosts = NodesOf(urlParts)
       /\ parsed.v.password = LastPassword(urlParts)

\* C12: the client is the cluster client exactly when the connection string
\* begins with the cluster marker, and a string that begins with neither the
\* cluster nor the sentinel marker is handed to the plain client as it is.
C12_PrefixClassification ==
    redis # NoClient =>
       /\ (redis.k = "Cluster") = StartsWith(url, ClusterScheme)
       /\ (~StartsWith(url, ClusterScheme) /\ ~StartsWith(url, SentinelScheme)) =>
             redis = PlainClient([k |-> "uri", v |-> url])

\* C17: once the constructor has run, the connection string is options.redisURI
\* when that is a non-empty string, otherwise the environment variable when
\* that is a non-empty string, and a client exists; with neither, an Error was
\* thrown and there is no client.
C17_UriPrecedence ==
    (redis # NoClient \/ thrown # Null) =>
       /\ ~Falsy(options) =>
             thrown = Null /\ redis # NoClient /\ Text(url) = options
       /\ (Falsy(options) /\ ~Falsy(env)) =>
             thrown = Null /\ redis # NoClient /\ Text(url) = env
       /\ (Falsy(options) /\ Falsy(env)) =>
             thrown = Err("Error") /\ redis = NoClient

\* both were supplied, with different strings, and the option's was connected to
C17_Witness ==
    /\ ~Falsy(options) /\ ~Falsy(env) /\ options # env
    /\ redis # NoClient /\ Text(url) = options

====
